---- MODULE Spec2Model ----
(***************************************************************************)
(* GltfRenderer (src/src/gltf_renderer.ts): the translation of a glTF      *)
(* asset into GPU buffers, bind groups and render pipelines, and the       *)
(* per-frame command recording that consumes them.                         *)
(*                                                                         *)
(* Conventions.  Arrays of the asset are sequences; an index stored in the *)
(* asset (accessor.bufferView, primitive.indices, node.mesh, skin.joints)  *)
(* is 0-based as in the source and is resolved with At.  A GPU object is   *)
(* its handle: the position of its record in the device's list of created *)
(* objects.  A float is an integer value; a byte of the binary payload is  *)
(* the number of its position plus one, so that a byte never written reads *)
(* 0 and a copied byte tells where it came from.                           *)
(***************************************************************************)
EXTENDS Integers, Sequences, FiniteSets, TLC

\* ------------------------------------------------------------------ bounds
MaxViews == 2
MaxAttrs == 2
MaxPrims == 2
MaxNodes == 2
MaxInstances == 2
MaxJoints == 2
MaxPending == 1

\* --------------------------------------------------------------- constants
GL_BYTE == 5120
GL_UNSIGNED_BYTE == 5121
GL_SHORT == 5122
GL_UNSIGNED_SHORT == 5123
GL_UNSIGNED_INT == 5125
GL_FLOAT == 5126

GL_POINTS == 0
GL_LINES == 1
GL_LINES_LOOP == 2
GL_LINE_STRIP == 3
GL_TRIANGLES == 4
GL_TRIANGLE_STRIP == 5
GL_TRIANGLE_FAN == 6

BYTES_PER_ELEMENT == 4

\* A property the asset does not have (bufferView.byteStride, primitive.indices,
\* primitive.mode, node.mesh): the value is undefined in the source.
Absent == -1

Undefined == "undefined"

\* ---------------------------------------------------------------- helpers
At(seq, i) == seq[i + 1]

Indices(seq) == 0 .. (Len(seq) - 1)

Zeros(n) == [k \in 1..n |-> 0]

RECURSIVE Concat(_)
Concat(seqs) == IF seqs = <<>> THEN <<>> ELSE Head(seqs) \o Concat(Tail(seqs))

Repeat(seq, n) == Concat([k \in 1..n |-> seq])

Min(a, b) == IF a < b THEN a ELSE b

\* Math.ceil(n / 4) * 4
RoundUp4(n) == ((n + 3) \div 4) * 4

\* ShaderLocations, in the Map's insertion order.
ShaderLocations ==
    << [name |-> "POSITION", location |-> 0],
       [name |-> "NORMAL", location |-> 1],
       [name |-> "JOINTS_0", location |-> 2],
       [name |-> "WEIGHTS_0", location |-> 3] >>

\* Mutant of ShaderLocationsProperty: the read finds the entry of the name.
ShaderLocationsLookup(attribName) ==
    IF \E s \in 1..Len(ShaderLocations) : ShaderLocations[s].name = attribName
    THEN ShaderLocations[CHOOSE s \in 1..Len(ShaderLocations) :
                            ShaderLocations[s].name = attribName].location
    ELSE Absent

\* ShaderLocations[attribName]: a property read on the Map object, not a
\* lookup of its entries.  No attribute semantic of an asset names a property
\* of a Map, so the read gives undefined.
ShaderLocationsProperty(attribName) == Absent

\* ------------------------------------------------------------ GLTFUtil
componentCountForType(type) ==
    CASE type = "SCALAR" -> 1
      [] type = "VEC2" -> 2
      [] type = "VEC3" -> 3
      [] type = "VEC4" -> 4
      [] OTHER -> 0

sizeForComponentType(componentType) ==
    CASE componentType = GL_BYTE -> 1
      [] componentType = GL_UNSIGNED_BYTE -> 1
      [] componentType = GL_SHORT -> 2
      [] componentType = GL_UNSIGNED_SHORT -> 2
      [] componentType = GL_UNSIGNED_INT -> 4
      [] componentType = GL_FLOAT -> 4
      [] OTHER -> 0

packedArrayStrideForAccessor(accessor) ==
    sizeForComponentType(accessor.componentType) * componentCountForType(accessor.type)

\* Mutant of gpuFormatForAccessor: the x<count> suffix is always there.
gpuFormatAlwaysSuffixed(accessor) ==
    LET norm == IF accessor.normalized THEN "norm" ELSE "int"
        count == componentCountForType(accessor.type)
    IN  CASE accessor.componentType = GL_BYTE -> <<"s", norm, 8, count>>
          [] accessor.componentType = GL_UNSIGNED_BYTE -> <<"u", norm, 8, count>>
          [] accessor.componentType = GL_SHORT -> <<"s", norm, 16, count>>
          [] accessor.componentType = GL_UNSIGNED_SHORT -> <<"u", norm, 16, count>>
          [] accessor.componentType = GL_UNSIGNED_INT -> <<"u", norm, 32, count>>
          [] accessor.componentType = GL_FLOAT -> <<"float", "", 32, count>>
          [] OTHER -> <<Undefined>>

\* The format string, as the tuple of the parts the template literal joins:
\* <<sign, norm, bits, multiplicity>>, multiplicity 0 for "no x<count> suffix".
gpuFormatForAccessor(accessor) ==
    LET norm == IF accessor.normalized THEN "norm" ELSE "int"
        count == componentCountForType(accessor.type)
        x == IF count > 1 THEN count ELSE 0
    IN  CASE accessor.componentType = GL_BYTE -> <<"s", norm, 8, x>>
          [] accessor.componentType = GL_UNSIGNED_BYTE -> <<"u", norm, 8, x>>
          [] accessor.componentType = GL_SHORT -> <<"s", norm, 16, x>>
          [] accessor.componentType = GL_UNSIGNED_SHORT -> <<"u", norm, 16, x>>
          [] accessor.componentType = GL_UNSIGNED_INT -> <<"u", norm, 32, x>>
          [] accessor.componentType = GL_FLOAT -> <<"float", "", 32, x>>
          [] OTHER -> <<Undefined>>

\* The string the template literal makes of the parts of a format.
FormatString(format) ==
    IF format = <<Undefined>> THEN Undefined
    ELSE format[1] \o format[2] \o ToString(format[3])
             \o (IF format[4] = 0 THEN "" ELSE "x" \o ToString(format[4]))

gpuPrimitiveTopologyForMode(mode) ==
    CASE mode = GL_TRIANGLES -> "triangle-list"
      [] mode = GL_TRIANGLE_STRIP -> "triangle-strip"
      [] mode = GL_LINES -> "line-list"
      [] mode = GL_LINE_STRIP -> "line-strip"
      [] mode = GL_POINTS -> "point-list"
      [] OTHER -> Undefined

\* Mutant of gpuIndexFormatForComponentType: the default case gives 16 bits.
gpuIndexFormatDefault16(componentType) ==
    CASE componentType = GL_UNSIGNED_SHORT -> "uint16"
      [] componentType = GL_UNSIGNED_INT -> "uint32"
      [] OTHER -> "uint16"

gpuIndexFormatForComponentType(componentType) ==
    CASE componentType = GL_UNSIGNED_SHORT -> "uint16"
      [] componentType = GL_UNSIGNED_INT -> "uint32"
      [] OTHER -> "uint32"

\* ------------------------------------------------------------------ inputs
\* The asset and the GLTFGroup that carries it are built by code outside this
\* file; the renderer reads them through gltf_group.  The builders below
\* enumerate well-formed assets: every index stored in the asset is in range
\* and every accessor has a buffer view.

\* 4x4 matrices, 16 floats each: the identity, and one whose 16 elements differ.
IdentityMat == <<1, 0, 0, 0, 0, 1, 0, 0, 0, 0, 1, 0, 0, 0, 0, 1>>
CountingMat == [k \in 1..16 |-> k + 1]
Mats == {IdentityMat, CountingMat}

\* A component type and an element type the format mapper does not know
\* (glTF's INT, and a matrix element type), next to the ones it knows.
UnknownComponentType == GL_FLOAT - 2

FloatVec3 == [componentType |-> GL_FLOAT, type |-> "VEC3", normalized |-> FALSE, count |-> 3, byteOffset |-> 0]
UShortScalar == [componentType |-> GL_UNSIGNED_SHORT, type |-> "SCALAR", normalized |-> FALSE, count |-> 6, byteOffset |-> 0]
UByteNormVec4 == [componentType |-> GL_UNSIGNED_BYTE, type |-> "VEC4", normalized |-> TRUE, count |-> 4, byteOffset |-> 4]
FloatMat4 == [componentType |-> GL_FLOAT, type |-> "MAT4", normalized |-> FALSE, count |-> 2, byteOffset |-> 0]
UnknownVec2 == [componentType |-> UnknownComponentType, type |-> "VEC2", normalized |-> FALSE, count |-> 5, byteOffset |-> 0]
UIntScalar == [componentType |-> GL_UNSIGNED_INT, type |-> "SCALAR", normalized |-> FALSE, count |-> 7, byteOffset |-> 4]

AccessorShapes == <<FloatVec3, UShortScalar, UByteNormVec4, FloatMat4, UnknownVec2, UIntScalar>>

NumShapes == Len(AccessorShapes)

ShapeIdx(shape) == CHOOSE s \in 1..NumShapes : AccessorShapes[s] = shape

\* The index in gltf.accessors of the accessor of the given shape on buffer view v.
AccIdx(shape, v) == v * NumShapes + (ShapeIdx(shape) - 1)

\* gltf.accessors of an asset with K buffer views: every shape on every view.
Accessors(K) ==
    [a \in 1..(K * NumShapes) |->
        LET s == AccessorShapes[((a - 1) % NumShapes) + 1]
        IN  [bufferView |-> (a - 1) \div NumShapes,
             byteOffset |-> s.byteOffset,
             componentType |-> s.componentType,
             type |-> s.type,
             normalized |-> s.normalized,
             count |-> s.count]]

\* A buffer view is 8 bytes apart from the next; kind = <<byteLength, byteStride>>.
BufferView(i, kind) ==
    [name |-> i, byteOffset |-> 8 * i, byteLength |-> kind[1], byteStride |-> kind[2]]

ViewKinds == {<<6, Absent>>, <<8, 16>>}

DefaultViews(K) == [i \in 1..K |-> BufferView(i - 1, <<8, Absent>>)]

\* asset.bufferData.get(0): the promise rejects (ok = FALSE) or resolves with
\* a Uint8Array of len bytes.
Payload(ok, len) == [ok |-> ok, len |-> len]

FullPayload(K) == Payload(TRUE, 8 * K)

Primitive(attributes, indices, mode) ==
    [attributes |-> attributes, indices |-> indices, mode |-> mode]

Node(mesh) == [mesh |-> mesh]

Skin(J) == [joints |-> [k \in 1..J |-> k - 1], inverseBindMatrices |-> AccIdx(FloatMat4, 0)]

\* The resolved world matrix of node n (GLTFGroup.nodeMatrics).
NodeMatrix(n) == IF n % 2 = 0 THEN CountingMat ELSE IdentityMat

Gltf(bufferViews, meshes, nodes, skins) ==
    [bufferViews |-> bufferViews,
     accessors |-> Accessors(Len(bufferViews)),
     meshes |-> meshes,
     nodes |-> nodes,
     hasSkins |-> skins # <<>>,
     skins |-> skins]

\* A GLTFGroup: the asset, the instance count and one transform per instance.
Group(gltf, payload, transforms) ==
    [gltf |-> gltf,
     bufferData |-> payload,
     instanceCount |-> Len(transforms),
     transforms |-> transforms,
     nodeMatrics |-> [n \in 1..Len(gltf.nodes) |-> NodeMatrix(n - 1)]]

Input(group, isFirst) == [gltf_group |-> group, isFirstRenderer |-> isFirst]

\* Sequences of length 1..n over S.
SeqsUpTo(S, n) == UNION {[1..k -> S] : k \in 1..n}

Distinct(seq) == \A i, j \in 1..Len(seq) : i # j => seq[i] # seq[j]

AttrNames == {"POSITION", "NORMAL", "JOINTS_0", "WEIGHTS_0", "TEXCOORD_0"}

\* The transform lists of n instances the drivers pass: the two matrices in
\* turn, starting with either.
TransformLists(n) ==
    { [i \in 1..n |-> IF i % 2 = 1 THEN first ELSE CHOOSE m \in Mats : m # first] :
        first \in Mats }

Attr(name, accessor) == [name |-> name, accessor |-> accessor]

\* Upload family: what the buffer views look like, which of them the one
\* primitive and the skin refer to, and what the payload fetch gives.
UploadAssets(K) ==
    { Gltf([i \in 1..K |-> BufferView(i - 1, kinds[i])],
           << <<Primitive(<<Attr("POSITION", AccIdx(FloatVec3, va))>>,
                          IF vi = Absent THEN Absent ELSE AccIdx(UShortScalar, vi),
                          GL_TRIANGLES)>> >>,
           <<Node(0)>>,
           IF vs = Absent THEN <<>>
           ELSE <<[joints |-> <<0>>, inverseBindMatrices |-> AccIdx(FloatMat4, vs)]>>) :
        kinds \in {[i \in 1..K |-> IF i % 2 = 1 THEN k1 ELSE k2] :
                      k1 \in ViewKinds, k2 \in ViewKinds},
        va \in 0..(K - 1), vi \in {Absent} \cup 0..(K - 1), vs \in {Absent} \cup 0..(K - 1) }

UploadInputs ==
    UNION { { Input(Group(gltf, payload, <<IdentityMat>>), FALSE) :
                gltf \in UploadAssets(K),
                payload \in {Payload(FALSE, 0), Payload(TRUE, 4), FullPayload(K)} } :
            K \in 1..MaxViews }

\* Pipeline family: one primitive; which attributes it has, in which order,
\* and of which shapes (the attribute at position j has the shape j - 1 places
\* after the first one's in AccessorShapes), with or without indices.
PipelineInputs ==
    { Input(Group(Gltf(DefaultViews(1),
                       << <<Primitive([j \in 1..Len(names) |->
                                          Attr(names[j],
                                               AccIdx(AccessorShapes[((first + j - 2) % NumShapes) + 1], 0))],
                                      indices, GL_TRIANGLES)>> >>,
                       <<Node(0)>>, <<>>),
                  FullPayload(1), <<IdentityMat>>),
            FALSE) :
        names \in {n \in SeqsUpTo(AttrNames, MaxAttrs) : Distinct(n)},
        first \in 1..NumShapes,
        indices \in {Absent, AccIdx(UShortScalar, 0)} }

\* Mesh family: up to MaxPrims primitives, in one mesh or one mesh each, every
\* mesh on a node of its own; the primitives differ in the shape of POSITION,
\* in having indices, in the topology mode, and in the component type of the
\* index accessor.
MeshPrims ==
    { Primitive(<<Attr("POSITION", AccIdx(shape, 0))>>, Absent, GL_TRIANGLES) :
        shape \in {FloatMat4, UnknownVec2} }
    \cup
    { Primitive(<<Attr("POSITION", AccIdx(FloatVec3, 0))>>, indices, mode) :
        indices \in {Absent, AccIdx(UShortScalar, 0), AccIdx(UIntScalar, 0)},
        mode \in {Absent, GL_LINES_LOOP, GL_TRIANGLES, GL_TRIANGLE_FAN} }
    \cup
    { Primitive(<<Attr("POSITION", AccIdx(FloatVec3, 0))>>, AccIdx(shape, 0), GL_TRIANGLES) :
        shape \in {UByteNormVec4, UnknownVec2, FloatVec3} }

\* The primitive lists of the family: one primitive of the family before or
\* after up to MaxPrims - 1 plain ones.
PlainPrim == Primitive(<<Attr("POSITION", AccIdx(FloatVec3, 0))>>, Absent, GL_TRIANGLES)

MeshPrimLists ==
    UNION { { <<p>> \o Repeat(<<PlainPrim>>, k), Repeat(<<PlainPrim>>, k) \o <<p>> } :
            p \in MeshPrims, k \in 0..(MaxPrims - 1) }

MeshInputs ==
    { Input(Group(Gltf(DefaultViews(1),
                       IF split THEN [m \in 1..Len(prims) |-> <<prims[m]>>] ELSE <<prims>>,
                       IF split THEN [m \in 1..Len(prims) |-> Node(m - 1)] ELSE <<Node(0)>>,
                       <<>>),
                  FullPayload(1), <<IdentityMat>>),
            FALSE) :
        prims \in MeshPrimLists, split \in BOOLEAN }

\* Scene family: two fixed meshes; which nodes carry which mesh, whether
\* there are skins and how many joints each has, how many instances, and
\* whether the renderer is the first one of the composition.
SceneMeshes ==
    << << Primitive(<<Attr("POSITION", AccIdx(FloatVec3, 0))>>, Absent, GL_TRIANGLES),
          Primitive(<<Attr("POSITION", AccIdx(FloatVec3, 0)), Attr("NORMAL", AccIdx(UByteNormVec4, 0))>>,
                    AccIdx(UShortScalar, 0), GL_TRIANGLES) >>,
       << Primitive(<<Attr("POSITION", AccIdx(FloatVec3, 0))>>, AccIdx(UIntScalar, 0), GL_LINES) >> >>

SceneInputs ==
    { Input(Group(Gltf(DefaultViews(1), SceneMeshes, nodes, skins),
                  FullPayload(1), [i \in 1..n |-> IF i % 2 = 1 THEN IdentityMat ELSE CountingMat]),
            isFirst) :
        nodes \in SeqsUpTo({Node(m) : m \in {Absent} \cup Indices(SceneMeshes)}, MaxNodes),
        skins \in {<<>>} \cup UNION { {<<Skin(J)>>, <<Skin(J), Skin(1)>>} : J \in 1..MaxJoints },
        n \in 1..MaxInstances,
        isFirst \in BOOLEAN }

Inputs ==
    UploadInputs \cup PipelineInputs \cup MeshInputs
        \cup {i \in SceneInputs :
                \A k \in 1..Len(i.gltf_group.gltf.skins) :
                    Len(i.gltf_group.gltf.skins[k].joints) <= Len(i.gltf_group.gltf.nodes)}

\* ------------------------------------------------------------------ device
\* The GPU device keeps every object it has created; a handle is the position
\* of the object's record.  Handle 0 is a field not yet set.
NoHandle == 0

NewDevice ==
    [buffers |-> <<>>, bindGroupLayouts |-> <<>>, bindGroups |-> <<>>,
     pipelineLayouts |-> <<>>, shaderModules |-> <<>>, pipelines |-> <<>>]

\* device.createBuffer: the buffer is zero-filled.  data holds one entry per
\* byte for a buffer mapped at creation and one entry per float otherwise.
CreateBuffer(d, label, size, usage, mappedAtCreation) ==
    [d EXCEPT !.buffers =
        Append(@, [label |-> label, size |-> size, usage |-> usage,
                   mapped |-> mappedAtCreation,
                   data |-> Zeros(IF mappedAtCreation THEN size ELSE size \div BYTES_PER_ELEMENT)])]

LastBuffer(d) == Len(d.buffers)

\* TypedArray.prototype.set(src) on a view that starts offset elements into buf.
TypedArraySet(buf, offset, src) ==
    [k \in 1..Len(buf) |->
        IF k > offset /\ k <= offset + Len(src) THEN src[k - offset] ELSE buf[k]]

\* queue.writeBuffer(buffer, byteOffset, floats) fits the buffer or throws.
WriteFits(d, buffer, byteOffset, floats) ==
    byteOffset + BYTES_PER_ELEMENT * Len(floats) <= d.buffers[buffer].size

WriteBuffer(d, buffer, byteOffset, floats) ==
    [d EXCEPT !.buffers[buffer].data =
        TypedArraySet(@, byteOffset \div BYTES_PER_ELEMENT, floats)]

CreateBindGroupLayout(d, label, types) ==
    [d EXCEPT !.bindGroupLayouts = Append(@, [label |-> label, entries |-> types])]

CreateBindGroup(d, label, layout, buffers) ==
    [d EXCEPT !.bindGroups = Append(@, [label |-> label, layout |-> layout, entries |-> buffers])]

\* ---------------------------------------------------------------- renderer
\* The fields of a GltfRenderer once init has stored its arguments.
NewRenderer ==
    [gpuBuffers |-> <<>>, primitiveGpuData |-> <<>>, nodeGpuData |-> <<>>,
     cameraBuffer |-> NoHandle, instanceBuffer |-> NoHandle, jointTransformBuffer |-> NoHandle,
     frameBindGroupLayout |-> NoHandle, frameBindGroup |-> NoHandle,
     nodeBindGroupLayout |-> NoHandle,
     jointInfoBuffer |-> NoHandle, inverseBindMatrixBuffer |-> NoHandle,
     constantBindGroupLayout |-> NoHandle, constantBindGroup |-> NoHandle,
     gltfPipelineLayout |-> NoHandle,
     vertShaderModule |-> NoHandle, fragShaderModule |-> NoHandle]

\* The world an initialization step runs in: the renderer's fields, the
\* device, the exception in flight, and the steps that have read skins[0].
World(r, d, err, reads) == [r |-> r, d |-> d, err |-> err, reads |-> reads]

NoError == "none"

Throw(w, err) == [w EXCEPT !.err = err]

\* gltf.skins[0], read by the named step: a TypeError when skins is undefined.
ReadSkin0(w, g, step) ==
    IF g.gltf.hasSkins
    THEN [w EXCEPT !.reads = @ \cup {step}]
    ELSE Throw([w EXCEPT !.reads = @ \cup {step}], "TypeError")

\* Mutant of ReadSkin0If: the read is not guarded.
ReadSkin0Always(cond, w, g, step) == ReadSkin0(w, g, step)

\* gltf.skins[0] read by the named step when cond holds.
ReadSkin0If(cond, w, g, step) == IF cond THEN ReadSkin0(w, g, step) ELSE w

\* ----------------------------------------------------------- loadGPUBuffers
PrimitiveUsageWrites(gltf, primitive) ==
    (IF primitive.indices # Absent
     THEN <<[view |-> At(gltf.accessors, primitive.indices).bufferView, usage |-> {"INDEX"}]>>
     ELSE <<>>)
    \o [j \in 1..Len(primitive.attributes) |->
          [view |-> At(gltf.accessors, primitive.attributes[j].accessor).bufferView,
           usage |-> {"VERTEX"}]]

MeshUsageWrites(gltf) ==
    Concat([m \in 1..Len(gltf.meshes) |->
              Concat([p \in 1..Len(gltf.meshes[m]) |->
                        PrimitiveUsageWrites(gltf, gltf.meshes[m][p])])])

SkinUsageWrites(gltf) ==
    IF gltf.hasSkins
    THEN <<[view |-> At(gltf.accessors, gltf.skins[1].inverseBindMatrices).bufferView,
            usage |-> {"STORAGE", "COPY_DST"}]>>
    ELSE <<>>

\* bufferViewUsages once both marking passes are done: every set() and every
\* property write replaces what the view had, so the last write of a view wins.
bufferViewUsages(gltf) ==
    LET ws == MeshUsageWrites(gltf) \o SkinUsageWrites(gltf)
    IN  [v \in {ws[k].view : k \in 1..Len(ws)} |->
            ws[CHOOSE k \in 1..Len(ws) :
                  ws[k].view = v /\ \A k2 \in (k + 1)..Len(ws) : ws[k2].view # v].usage]

\* wholeArray.subarray(byteOffset, byteOffset + byteLength): both ends are
\* clamped to the array; the bytes are named by their position plus one.
Subarray(len, begin, end) ==
    [k \in 1..(Min(end, len) - Min(begin, len)) |-> Min(begin, len) + k]

\* The body of the buffer-view loop from index i on, up to the next await or
\* the end of the loop.  load holds the locals of the suspended function.
Suspended(w, usages, i) ==
    [w |-> w, load |-> [usages |-> usages, i |-> i, gpuBuffer |-> Len(w.d.buffers), done |-> FALSE]]

Loaded(w, usages, i) ==
    [w |-> w, load |-> [usages |-> usages, i |-> i, gpuBuffer |-> NoHandle, done |-> TRUE]]

\* Mutant of PushBuffer: the placeholder is created but not pushed.
PushBufferDropped(w, d) == [w EXCEPT !.d = d]

\* gpuBuffers.push of the placeholder the device has just created.
PushBuffer(w, d) == [w EXCEPT !.d = d, !.r.gpuBuffers = Append(@, Len(d.buffers))]

RECURSIVE LoadLoop(_, _, _, _)
LoadLoop(w, g, usages, i) ==
    IF w.err # NoError \/ i >= Len(g.gltf.bufferViews) THEN Loaded(w, usages, i)
    ELSE IF i \in DOMAIN usages
    THEN Suspended([w EXCEPT !.d = CreateBuffer(w.d, At(g.gltf.bufferViews, i).name,
                                                RoundUp4(At(g.gltf.bufferViews, i).byteLength),
                                                usages[i], TRUE)],
                   usages, i)
    ELSE LoadLoop(PushBuffer(w, CreateBuffer(w.d, "empty buffer", 4, {"COPY_DST"}, FALSE)),
                  g, usages, i + 1)

\* loadGPUBuffers from its first line to its first await (or its end).
ClearGpuBuffers(w) == [w EXCEPT !.r.gpuBuffers = <<>>]

loadGPUBuffersStart(w, g) ==
    LoadLoop(ClearGpuBuffers(ReadSkin0If(g.gltf.hasSkins, w, g, "loadGPUBuffers")),
             g, bufferViewUsages(g.gltf), 0)

\* gpuBufferArray.set(subArray) and gpuBuffer.unmap() for the buffer view.
FillBuffer(d, gpuBuffer, bufferView, len) ==
    [d EXCEPT !.buffers[gpuBuffer].data =
                  TypedArraySet(@, 0, Subarray(len, bufferView.byteOffset,
                                               bufferView.byteOffset + bufferView.byteLength)),
              !.buffers[gpuBuffer].mapped = FALSE]

\* loadGPUBuffers from the await that resolved with len bytes to the next one.
loadGPUBuffersResume(w, g, ld, len) ==
    LoadLoop([w EXCEPT !.d = FillBuffer(w.d, ld.gpuBuffer, At(g.gltf.bufferViews, ld.i), len),
                       !.r.gpuBuffers = Append(@, ld.gpuBuffer)],
             g, ld.usages, ld.i + 1)

\* Every step below takes the world it starts in and gives the world it ends
\* in; the handle of the object a step creates is the device's next position.
NextBuffer(w) == Len(w.d.buffers) + 1
NextLayout(w) == Len(w.d.bindGroupLayouts) + 1
NextBindGroup(w) == Len(w.d.bindGroups) + 1

\* Mutant of InstanceOffset: the stride is 4 floats.
InstanceOffsetPacked(index) == index * 4

\* ------------------------------------------------------ updateInstanceBuffer
\* The float offset of transform index in instanceArrayBuffer (st, in floats).
InstanceOffset(index) == index * 16

RECURSIVE SetTransforms(_, _, _)
SetTransforms(buf, transforms, index) ==
    IF index >= Len(transforms) THEN buf
    ELSE SetTransforms(TypedArraySet(buf, InstanceOffset(index), At(transforms, index)),
                       transforms, index + 1)

\* instanceArrayBuffer after the loop over gltf_group.transforms.
InstanceArray(g) == SetTransforms(Zeros(16 * g.instanceCount), g.transforms, 0)

\* new Float32Array(buffer, st, 16) throws a RangeError past the buffer's end,
\* and writeBuffer throws when the data does not fit the instance buffer.
updateInstanceBuffer(w, g) ==
    IF Len(g.transforms) > g.instanceCount THEN Throw(w, "RangeError")
    ELSE IF ~WriteFits(w.d, w.r.instanceBuffer, 0, InstanceArray(g)) THEN Throw(w, "OperationError")
    ELSE [w EXCEPT !.d = WriteBuffer(w.d, w.r.instanceBuffer, 0, InstanceArray(g))]

\* ------------------------------------------------------ initConstantBindGroup
\* The four floats written to the joint info buffer: hasJoint, jointNum, 0, 0.
JointInfo(g) ==
    IF g.gltf.hasSkins THEN <<1, Len(g.gltf.skins[1].joints), 0, 0>> ELSE <<0, 0, 0, 0>>

CreateJointInfoBuffer(w, g) ==
    IF w.err # NoError THEN w
    ELSE [w EXCEPT !.d = WriteBuffer(CreateBuffer(w.d, "", 4 * BYTES_PER_ELEMENT,
                                                  {"UNIFORM", "COPY_DST"}, FALSE),
                                     NextBuffer(w), 0, JointInfo(g)),
                   !.r.jointInfoBuffer = NextBuffer(w)]

SetInverseBindMatrixBuffer(w, g) ==
    IF w.err # NoError THEN w
    ELSE IF g.gltf.hasSkins
    THEN [w EXCEPT !.r.inverseBindMatrixBuffer =
              At(w.r.gpuBuffers, At(g.gltf.accessors, g.gltf.skins[1].inverseBindMatrices).bufferView)]
    ELSE [w EXCEPT !.d = CreateBuffer(w.d, "", 4 * BYTES_PER_ELEMENT, {"STORAGE", "COPY_DST"}, FALSE),
                   !.r.inverseBindMatrixBuffer = NextBuffer(w)]

CreateConstantBindGroup(w) ==
    IF w.err # NoError THEN w
    ELSE [w EXCEPT !.d = CreateBindGroup(
                             CreateBindGroupLayout(w.d, "Constant BindGroupLayout",
                                                   <<"uniform", "read-only-storage">>),
                             "Constant BindGroup", NextLayout(w),
                             <<w.r.jointInfoBuffer, w.r.inverseBindMatrixBuffer>>),
                   !.r.constantBindGroupLayout = NextLayout(w),
                   !.r.constantBindGroup = NextBindGroup(w)]

initConstantBindGroup(w, g) ==
    CreateConstantBindGroup(
        SetInverseBindMatrixBuffer(
            CreateJointInfoBuffer(
                ReadSkin0If(g.gltf.hasSkins, w, g, "initConstantBindGroup"), g), g))

\* --------------------------------------------------------- initFrameBindGroup
\* static FRAMEBUFFERSIZE, in bytes.
FRAMEBUFFERSIZE == BYTES_PER_ELEMENT * 36

CreateCameraBuffer(w) ==
    [w EXCEPT !.d = CreateBuffer(w.d, "", FRAMEBUFFERSIZE * BYTES_PER_ELEMENT,
                                 {"UNIFORM", "COPY_DST"}, FALSE),
              !.r.cameraBuffer = NextBuffer(w)]

CreateInstanceBuffer(w, g) ==
    [w EXCEPT !.d = CreateBuffer(w.d, "", 16 * g.instanceCount * BYTES_PER_ELEMENT,
                                 {"STORAGE", "COPY_DST"}, FALSE),
              !.r.instanceBuffer = NextBuffer(w)]

\* Mutant of JointTransformBufferSize: room for one instance only.
JointTransformBufferSizeOneInstance(g) ==
    IF g.gltf.hasSkins
    THEN 16 * Len(g.gltf.skins[1].joints) * BYTES_PER_ELEMENT
    ELSE 4 * BYTES_PER_ELEMENT

\* The size, in bytes, of the joint transform buffer.
JointTransformBufferSize(g) ==
    IF g.gltf.hasSkins
    THEN 16 * Len(g.gltf.skins[1].joints) * g.instanceCount * BYTES_PER_ELEMENT
    ELSE 4 * BYTES_PER_ELEMENT

\* jointTransformArrayBuffer: the node matrix of every joint of the first skin.
JointTransformArray(g) ==
    Concat([index \in 1..Len(g.gltf.skins[1].joints) |->
              At(g.nodeMatrics, g.gltf.skins[1].joints[index])])

\* The writes of the default pose, one per instance from instance i on.
RECURSIVE WriteJointTransforms(_, _, _, _)
WriteJointTransforms(d, g, buffer, i) ==
    IF i >= g.instanceCount THEN d
    ELSE WriteJointTransforms(
             WriteBuffer(d, buffer,
                         i * 16 * Len(g.gltf.skins[1].joints) * BYTES_PER_ELEMENT,
                         JointTransformArray(g)),
             g, buffer, i + 1)

CreateJointTransformBuffer(w, g) ==
    IF w.err # NoError THEN w
    ELSE [w EXCEPT !.d = IF g.gltf.hasSkins
                         THEN WriteJointTransforms(
                                  CreateBuffer(w.d, "", JointTransformBufferSize(g),
                                               {"STORAGE", "COPY_DST"}, FALSE),
                                  g, NextBuffer(w), 0)
                         ELSE CreateBuffer(w.d, "", JointTransformBufferSize(g),
                                           {"STORAGE", "COPY_DST"}, FALSE),
                   !.r.jointTransformBuffer = NextBuffer(w)]

CreateFrameBindGroup(w) ==
    IF w.err # NoError THEN w
    ELSE [w EXCEPT !.d = CreateBindGroup(
                             CreateBindGroupLayout(w.d, "Frame BindGroupLayout",
                                 <<"uniform", "read-only-storage", "read-only-storage">>),
                             "Frame BindGroup", NextLayout(w),
                             <<w.r.cameraBuffer, w.r.instanceBuffer, w.r.jointTransformBuffer>>),
                   !.r.frameBindGroupLayout = NextLayout(w),
                   !.r.frameBindGroup = NextBindGroup(w)]

\* updateInstanceBuffer may throw; the skin is read only after it has returned.
InitInstances(w, g) ==
    IF w.err # NoError THEN w ELSE updateInstanceBuffer(CreateInstanceBuffer(CreateCameraBuffer(w), g), g)

ReadSkinForFrame(w, g) ==
    IF w.err # NoError THEN w ELSE ReadSkin0If(g.gltf.hasSkins, w, g, "initFrameBindGroup")

initFrameBindGroup(w, g) ==
    CreateFrameBindGroup(CreateJointTransformBuffer(ReadSkinForFrame(InitInstances(w, g), g), g))

\* ---------------------------------------------------------- initNodeBindGroup
setupMeshNodeBindGroup(w, g, node) ==
    [w EXCEPT !.d = CreateBindGroup(
                        WriteBuffer(CreateBuffer(w.d, "", 16 * BYTES_PER_ELEMENT,
                                                 {"UNIFORM", "COPY_DST"}, FALSE),
                                    NextBuffer(w), 0, At(g.nodeMatrics, node)),
                        "glTF Node BindGroup", w.r.nodeBindGroupLayout, <<NextBuffer(w)>>),
              !.r.nodeGpuData = Append(@, [node |-> node, bindGroup |-> NextBindGroup(w)])]

\* The loop over gltf.nodes from index node on: 'mesh' in node.
RECURSIVE NodeLoop(_, _, _)
NodeLoop(w, g, node) ==
    IF node >= Len(g.gltf.nodes) THEN w
    ELSE IF At(g.gltf.nodes, node).mesh # Absent
    THEN NodeLoop(setupMeshNodeBindGroup(w, g, node), g, node + 1)
    ELSE NodeLoop(w, g, node + 1)

CreateNodeBindGroupLayout(w) ==
    [w EXCEPT !.d = CreateBindGroupLayout(w.d, "glTF Node BindGroupLayout", <<"uniform">>),
              !.r.nodeBindGroupLayout = NextLayout(w)]

initNodeBindGroup(w, g) ==
    IF w.err # NoError THEN w ELSE NodeLoop(CreateNodeBindGroupLayout(w), g, 0)

\* -------------------------------------------------------------- setupPrimitive
\* A primitive is named by the index of its mesh and its index in the mesh.
PrimitiveAt(g, key) == At(At(g.gltf.meshes, key[1]), key[2])

\* The entry pushed to bufferLayout for an attribute.
LayoutEntry(bufferView, accessor, location) ==
    [arrayStride |-> IF bufferView.byteStride # Absent /\ bufferView.byteStride # 0
                     THEN bufferView.byteStride
                     ELSE packedArrayStrideForAccessor(accessor),
     format |-> gpuFormatForAccessor(accessor),
     offset |-> 0,
     shaderLocation |-> location]

\* The entry pushed to primitiveGpuBuffers for an attribute.
BufferEntry(gpuBuffers, accessor) ==
    [buffer |-> At(gpuBuffers, accessor.bufferView), offset |-> accessor.byteOffset]

\* What both loops do for an attribute they keep; acc holds bufferLayout,
\* primitiveGpuBuffers and drawCount.
PushAttribute(gpuBuffers, g, acc, accessor, location) ==
    [bufferLayout |->
         Append(acc.bufferLayout,
                LayoutEntry(At(g.gltf.bufferViews, accessor.bufferView), accessor, location)),
     primitiveGpuBuffers |-> Append(acc.primitiveGpuBuffers, BufferEntry(gpuBuffers, accessor)),
     drawCount |-> accessor.count]

\* The positions of the attributes of the primitive with the given name.
Found(primitive, name) ==
    {j \in 1..Len(primitive.attributes) : primitive.attributes[j].name = name}

First(found) == CHOOSE j \in found : \A j2 \in found : j <= j2

\* The first loop: for every shader slot from slot s on, the first attribute
\* of the primitive with the slot's name, if there is one.
RECURSIVE ShaderSlotLoop(_, _, _, _, _)
ShaderSlotLoop(gpuBuffers, g, primitive, acc, s) ==
    IF s > Len(ShaderLocations) THEN acc
    ELSE IF Found(primitive, ShaderLocations[s].name) = {}
    THEN ShaderSlotLoop(gpuBuffers, g, primitive, acc, s + 1)
    ELSE ShaderSlotLoop(gpuBuffers, g, primitive,
             PushAttribute(gpuBuffers, g, acc,
                 At(g.gltf.accessors,
                    primitive.attributes[First(Found(primitive, ShaderLocations[s].name))].accessor),
                 ShaderLocations[s].location),
             s + 1)

\* The second loop: every attribute whose name is a property of ShaderLocations.
RECURSIVE AttributeLoop(_, _, _, _, _)
AttributeLoop(gpuBuffers, g, primitive, acc, j) ==
    IF j > Len(primitive.attributes) THEN acc
    ELSE IF ShaderLocationsProperty(primitive.attributes[j].name) = Absent
    THEN AttributeLoop(gpuBuffers, g, primitive, acc, j + 1)
    ELSE AttributeLoop(gpuBuffers, g, primitive,
             PushAttribute(gpuBuffers, g, acc,
                           At(g.gltf.accessors, primitive.attributes[j].accessor),
                           ShaderLocationsProperty(primitive.attributes[j].name)),
             j + 1)

\* bufferLayout, primitiveGpuBuffers and drawCount after both loops.
PrimitiveLayout(gpuBuffers, g, primitive) ==
    AttributeLoop(gpuBuffers, g, primitive,
        ShaderSlotLoop(gpuBuffers, g, primitive,
                       [bufferLayout |-> <<>>, primitiveGpuBuffers |-> <<>>, drawCount |-> 0], 1),
        1)

\* getVertexShaderModule / getFragmentShaderModule: created on first use.
getVertexShaderModule(w) ==
    IF w.r.vertShaderModule # NoHandle THEN w
    ELSE [w EXCEPT !.d.shaderModules = Append(@, "glTF vertex shader module"),
                   !.r.vertShaderModule = Len(w.d.shaderModules) + 1]

getFragmentShaderModule(w) ==
    IF w.r.fragShaderModule # NoHandle THEN w
    ELSE [w EXCEPT !.d.shaderModules = Append(@, "glTF fragment shader module"),
                   !.r.fragShaderModule = Len(w.d.shaderModules) + 1]

\* A format string that is a member of the GPUVertexFormat enumeration:
\* 8- and 16-bit components come alone, in pairs or in fours, 32-bit ones
\* also in threes, and there is no normalized 32-bit format.
IsVertexFormat(format) ==
    /\ format # <<Undefined>>
    /\ IF format[3] = 32
       THEN format[2] # "norm" /\ format[4] \in {0, 2, 3, 4}
       ELSE format[4] \in {0, 2, 4}

\* device.createRenderPipeline converts its descriptor first: format is a
\* required enumeration member of a vertex attribute, so undefined or a string
\* outside the enumeration is a TypeError, while topology is optional and
\* undefined leaves it to the device's default.
PipelineDescriptorConverts(bufferLayout) ==
    \A k \in 1..Len(bufferLayout) : IsVertexFormat(bufferLayout[k].format)

\* Mutant of GpuPrimitive: the index accessor's count does not replace drawCount.
GpuPrimitiveNoOverride(gpuBuffers, g, primitive, pipeline, acc) ==
    [pipeline |-> pipeline,
     buffers |-> acc.primitiveGpuBuffers,
     drawCount |-> acc.drawCount,
     indexBuffer |-> IF primitive.indices # Absent
                     THEN At(gpuBuffers, At(g.gltf.accessors, primitive.indices).bufferView)
                     ELSE NoHandle,
     indexOffset |-> 0,
     indexType |-> Undefined]

\* What setupPrimitive stores for the primitive once the pipeline exists.
GpuPrimitive(gpuBuffers, g, primitive, pipeline, acc) ==
    IF primitive.indices # Absent
    THEN [pipeline |-> pipeline,
          buffers |-> acc.primitiveGpuBuffers,
          drawCount |-> At(g.gltf.accessors, primitive.indices).count,
          indexBuffer |-> At(gpuBuffers, At(g.gltf.accessors, primitive.indices).bufferView),
          indexOffset |-> At(g.gltf.accessors, primitive.indices).byteOffset,
          indexType |-> gpuIndexFormatForComponentType(
                            At(g.gltf.accessors, primitive.indices).componentType)]
    ELSE [pipeline |-> pipeline,
          buffers |-> acc.primitiveGpuBuffers,
          drawCount |-> acc.drawCount,
          indexBuffer |-> NoHandle,
          indexOffset |-> 0,
          indexType |-> Undefined]

\* createRenderPipeline and the bookkeeping after it, the two loops having
\* left acc.
CreatePipeline(w, g, key, acc) ==
    IF ~PipelineDescriptorConverts(acc.bufferLayout) THEN Throw(w, "TypeError")
    ELSE [w EXCEPT !.d.pipelines =
                       Append(@, [primitive |-> key,
                                  layout |-> w.r.gltfPipelineLayout,
                                  buffers |-> acc.bufferLayout,
                                  topology |-> gpuPrimitiveTopologyForMode(PrimitiveAt(g, key).mode)]),
                   !.r.primitiveGpuData =
                       [k \in DOMAIN @ \cup {key} |->
                           IF k = key
                           THEN GpuPrimitive(w.r.gpuBuffers, g, PrimitiveAt(g, key),
                                             Len(w.d.pipelines) + 1, acc)
                           ELSE @[k]]]

setupPrimitive(w, g, key) ==
    CreatePipeline(getFragmentShaderModule(getVertexShaderModule(w)), g, key,
                   PrimitiveLayout(w.r.gpuBuffers, g, PrimitiveAt(g, key)))

\* ------------------------------------------------------ initializeWebGPUAndGLTF
\* The primitives of all meshes, in the order the two loops visit them.
PrimitiveKeys(g) ==
    Concat([m \in 1..Len(g.gltf.meshes) |->
              [p \in 1..Len(g.gltf.meshes[m]) |-> <<m - 1, p - 1>>]])

RECURSIVE PrimitiveLoop(_, _, _)
PrimitiveLoop(w, g, keys) ==
    IF keys = <<>> \/ w.err # NoError THEN w
    ELSE PrimitiveLoop(setupPrimitive(w, g, Head(keys)), g, Tail(keys))

createPipelineLayout(w) ==
    IF w.err # NoError THEN w
    ELSE [w EXCEPT !.d.pipelineLayouts =
                       Append(@, <<w.r.constantBindGroupLayout, w.r.frameBindGroupLayout,
                                   w.r.nodeBindGroupLayout>>),
                   !.r.gltfPipelineLayout = Len(w.d.pipelineLayouts) + 1]

\* initializeWebGPUAndGLTF after loadGPUBuffers has resolved: no later step
\* awaits, and a step that throws ends the initialization where it stands.
initializeAfterLoad(w, g) ==
    PrimitiveLoop(
        createPipelineLayout(initNodeBindGroup(initFrameBindGroup(initConstantBindGroup(w, g), g), g)),
        g, PrimitiveKeys(g))

\* ------------------------------------------------------------------ renderGLTF
\* A call on the device, the command encoder, the pass encoder, the queue or
\* the host, with the arguments that matter.
Cmd(op, args) == [op |-> op, args |-> args]

\* Mutant of LoadOp: every renderer clears.
LoadOpAlwaysClear(isFirst) == "clear"

LoadOp(isFirst) == IF isFirst THEN "clear" ELSE "load"

\* The calls the loop body makes for one primitive of a node's mesh.
PrimitiveCmds(r, g, key) ==
    LET gpuPrimitive == r.primitiveGpuData[key]
    IN  <<Cmd("setPipeline", <<gpuPrimitive.pipeline>>)>>
        \o [i \in 1..Len(gpuPrimitive.buffers) |->
              Cmd("setVertexBuffer",
                  <<i - 1, gpuPrimitive.buffers[i].buffer, gpuPrimitive.buffers[i].offset>>)]
        \o (IF gpuPrimitive.indexBuffer # NoHandle
            THEN <<Cmd("setIndexBuffer",
                       <<gpuPrimitive.indexBuffer, gpuPrimitive.indexType, gpuPrimitive.indexOffset>>),
                   Cmd("drawIndexed", <<gpuPrimitive.drawCount, g.instanceCount>>)>>
            ELSE <<Cmd("draw", <<gpuPrimitive.drawCount, g.instanceCount>>)>>)

\* Mutant of NodeCmds: the node's bind group is set after its primitives.
NodeCmdsBindLast(r, g, entry) ==
    LET mesh == At(g.gltf.nodes, entry.node).mesh
    IN  Concat([p \in 1..Len(At(g.gltf.meshes, mesh)) |-> PrimitiveCmds(r, g, <<mesh, p - 1>>)])
        \o <<Cmd("setBindGroup", <<2, entry.bindGroup>>)>>

\* The calls for one entry of nodeGpuData.
NodeCmds(r, g, entry) ==
    LET mesh == At(g.gltf.nodes, entry.node).mesh
    IN  <<Cmd("setBindGroup", <<2, entry.bindGroup>>)>>
        \o Concat([p \in 1..Len(At(g.gltf.meshes, mesh)) |-> PrimitiveCmds(r, g, <<mesh, p - 1>>)])

\* Every call of one invocation of renderGLTF, in order.
renderGLTF(r, g, isFirst) ==
    <<Cmd("getCurrentTexture", <<>>),
      Cmd("createCommandEncoder", <<>>),
      Cmd("beginRenderPass", <<LoadOp(isFirst), LoadOp(isFirst), LoadOp(isFirst)>>),
      Cmd("setBindGroup", <<0, r.constantBindGroup>>),
      Cmd("setBindGroup", <<1, r.frameBindGroup>>)>>
    \o Concat([n \in 1..Len(r.nodeGpuData) |-> NodeCmds(r, g, r.nodeGpuData[n])])
    \o <<Cmd("setViewport", <<>>),
         Cmd("setScissorRect", <<>>),
         Cmd("end", <<>>),
         Cmd("finish", <<>>),
         Cmd("submit", <<>>),
         Cmd("requestAnimationFrame", <<>>)>>

\* ------------------------------------------------------------ updateCameraBuffer
\* frameArrayBuffer: FRAMEBUFFERSIZE bytes, the four typed views set in turn.
FrameArray(projMat, viewMat, pos, time) ==
    TypedArraySet(
        TypedArraySet(
            TypedArraySet(
                TypedArraySet(Zeros(FRAMEBUFFERSIZE \div BYTES_PER_ELEMENT), 0, projMat),
                16, viewMat),
            32, pos),
        35, <<time>>)

\* Mutant of updateCameraBuffer: a buffer is created on every call.
updateCameraBufferAllocating(d, r, projMat, viewMat, pos, time) ==
    WriteBuffer(CreateBuffer(d, "", FRAMEBUFFERSIZE, {"UNIFORM", "COPY_DST"}, FALSE),
                r.cameraBuffer, 0, FrameArray(projMat, viewMat, pos, time))

updateCameraBuffer(d, r, projMat, viewMat, pos, time) ==
    WriteBuffer(d, r.cameraBuffer, 0, FrameArray(projMat, viewMat, pos, time))

\* What the camera driver passes: <<projMat, viewMat, pos, time>>.
CameraArgs ==
    { <<IdentityMat, CountingMat, <<21, 22, 23>>, 30>>,
      <<CountingMat, IdentityMat, <<24, 25, 26>>, 31>> }

\* ----------------------------------------------------------------------- state
VARIABLES
    phase,            \* "constructed", "loading" (init awaits the payload), "ready", "failed"
    error,            \* the exception init was rejected with
    gltf_group,       \* this.gltf_group
    isFirstRenderer,  \* this.isFirstRenderer
    renderer,         \* the GPU-side fields of the renderer
    device,           \* the objects the device has created
    load,             \* the locals of loadGPUBuffers while it is suspended
    skinReads,        \* the steps that have read gltf.skins[0]
    cmds,             \* the calls made by the latest invocation of renderGLTF
    rafPending        \* frame callbacks requested from the host and not yet run

vars == <<phase, error, gltf_group, isFirstRenderer, renderer, device, load, skinReads,
          cmds, rafPending>>

NoLoad == [usages |-> <<>>, i |-> 0, gpuBuffer |-> NoHandle, done |-> FALSE]

\* After `new GltfRenderer()`: no field is set.
Init ==
    /\ phase = "constructed"
    /\ error = NoError
    /\ gltf_group = Group(Gltf(<<>>, <<>>, <<>>, <<>>), Payload(FALSE, 0), <<>>)
    /\ isFirstRenderer = FALSE
    /\ renderer = NewRenderer
    /\ device = NewDevice
    /\ load = NoLoad
    /\ skinReads = {}
    /\ cmds = <<>>
    /\ rafPending = 0

\* init() runs on from a point where loadGPUBuffers has suspended or ended
\* (res): to the next await, to the end of initialization, or to a throw.
RunOn(res, g) ==
    IF res.load.done /\ res.w.err = NoError THEN initializeAfterLoad(res.w, g) ELSE res.w

Settle(final, resLoad) ==
    /\ renderer' = final.r
    /\ device' = final.d
    /\ error' = final.err
    /\ skinReads' = final.reads
    /\ load' = resLoad
    /\ phase' = IF final.err # NoError THEN "failed"
                ELSE IF resLoad.done THEN "ready" ELSE "loading"

Proceed(res, g) == Settle(RunOn(res, g), res.load)

\* init(adapter, device, queue, canvas, context, gltf_group, ..., isFirstRenderer)
CallInit ==
    /\ phase = "constructed"
    /\ \E in \in Inputs :
          /\ gltf_group' = in.gltf_group
          /\ isFirstRenderer' = in.isFirstRenderer
          /\ Proceed(loadGPUBuffersStart(World(NewRenderer, device, NoError, {}), in.gltf_group),
                     in.gltf_group)
    /\ UNCHANGED <<cmds, rafPending>>

\* The payload promise resolves and loadGPUBuffers resumes.
PayloadResolved ==
    /\ phase = "loading"
    /\ gltf_group.bufferData.ok
    /\ Proceed(loadGPUBuffersResume(World(renderer, device, NoError, skinReads), gltf_group,
                                    load, gltf_group.bufferData.len),
               gltf_group)
    /\ UNCHANGED <<gltf_group, isFirstRenderer, cmds, rafPending>>

\* The payload promise rejects: the await throws out of init.
PayloadRejected ==
    /\ phase = "loading"
    /\ ~gltf_group.bufferData.ok
    /\ phase' = "failed"
    /\ error' = "LoadError"
    /\ UNCHANGED <<gltf_group, isFirstRenderer, renderer, device, load, skinReads, cmds, rafPending>>

\* The host calls renderGLTF once initialization is over.
CallRenderGLTF ==
    /\ phase = "ready"
    /\ rafPending < MaxPending
    /\ cmds' = renderGLTF(renderer, gltf_group, isFirstRenderer)
    /\ rafPending' = rafPending + 1
    /\ UNCHANGED <<phase, error, gltf_group, isFirstRenderer, renderer, device, load, skinReads>>

\* The host runs a requested frame callback, which is renderGLTF.
AnimationFrame ==
    /\ phase = "ready"
    /\ rafPending > 0
    /\ cmds' = renderGLTF(renderer, gltf_group, isFirstRenderer)
    /\ rafPending' = (rafPending - 1) + 1
    /\ UNCHANGED <<phase, error, gltf_group, isFirstRenderer, renderer, device, load, skinReads>>

CallUpdateCameraBuffer ==
    /\ phase = "ready"
    /\ \E a \in CameraArgs :
          device' = updateCameraBuffer(device, renderer, a[1], a[2], a[3], a[4])
    /\ UNCHANGED <<phase, error, gltf_group, isFirstRenderer, renderer, load, skinReads, cmds, rafPending>>

\* The driver replaces the group's transform list and calls updateInstanceBuffer.
CallUpdateInstanceBuffer ==
    /\ phase = "ready"
    /\ \E t \in TransformLists(gltf_group.instanceCount) :
          /\ gltf_group' = [gltf_group EXCEPT !.transforms = t]
          /\ device' = updateInstanceBuffer(World(renderer, device, NoError, skinReads),
                                            [gltf_group EXCEPT !.transforms = t]).d
    /\ UNCHANGED <<phase, error, isFirstRenderer, renderer, load, skinReads, cmds, rafPending>>

\* updateJointTransformBuffer has an empty body.
CallUpdateJointTransformBuffer ==
    /\ phase = "ready"
    /\ UNCHANGED vars

Next ==
    \/ CallInit
    \/ PayloadResolved
    \/ PayloadRejected
    \/ CallRenderGLTF
    \/ AnimationFrame
    \/ CallUpdateCameraBuffer
    \/ CallUpdateInstanceBuffer
    \/ CallUpdateJointTransformBuffer

Spec == Init /\ [][Next]_vars

\* ======================================================================
\* Properties
\* ======================================================================
Gltf_ == gltf_group.gltf

BufferOf(handle) == device.buffers[handle]

\* Buffer view i is referenced by the index accessor or an attribute accessor
\* of some primitive, or by the inverse-bind-matrix accessor of the first skin.
ReferencedView(i) ==
    \/ \E m \in 1..Len(Gltf_.meshes) : \E p \in 1..Len(Gltf_.meshes[m]) :
          LET primitive == Gltf_.meshes[m][p]
          IN  \/ /\ primitive.indices # Absent
                 /\ At(Gltf_.accessors, primitive.indices).bufferView = i
              \/ \E j \in 1..Len(primitive.attributes) :
                    At(Gltf_.accessors, primitive.attributes[j].accessor).bufferView = i
    \/ /\ Gltf_.hasSkins
       /\ At(Gltf_.accessors, Gltf_.skins[1].inverseBindMatrices).bufferView = i

\* C1: once loadGPUBuffers has completed, gpuBuffers holds exactly one handle
\* per buffer view, all different, and the handle at index i is the buffer
\* created for buffer view i: the uploaded buffer (labelled with the view's
\* name, of the view's length rounded up to 4) when the view is referenced,
\* and a 4-byte placeholder when it is not.
C1_DenseBufferMapping ==
    load.done =>
        /\ Len(renderer.gpuBuffers) = Len(Gltf_.bufferViews)
        /\ \A i, j \in Indices(renderer.gpuBuffers) :
              i # j => At(renderer.gpuBuffers, i) # At(renderer.gpuBuffers, j)
        /\ \A i \in Indices(Gltf_.bufferViews) :
              LET b == BufferOf(At(renderer.gpuBuffers, i))
              IN  IF ReferencedView(i)
                  THEN /\ b.label = At(Gltf_.bufferViews, i).name
                       /\ b.size = RoundUp4(At(Gltf_.bufferViews, i).byteLength)
                  ELSE /\ b.label = "empty buffer"
                       /\ b.size = 4

\* Witness of C1: a loaded asset with two buffer views, the first not referenced
\* and the second referenced.
C1_Witness ==
    /\ load.done
    /\ Len(Gltf_.bufferViews) = 2
    /\ ~ReferencedView(0)
    /\ ReferencedView(1)
    /\ Len(renderer.gpuBuffers) = 2

\* The positions in cmds of the calls named op, and of the draws.
Pos(op) == {k \in 1..Len(cmds) : cmds[k].op = op}

DrawPos == Pos("draw") \cup Pos("drawIndexed")

\* The positions in S, in ascending order.
Ascending(S) ==
    LET idx == [k \in 1..Len(cmds) |-> k]
    IN  SelectSeq(idx, LAMBDA k : k \in S)

\* The shader slots, by position in ShaderLocations, that a primitive provides.
ProvidedSlots(primitive) ==
    {s \in 1..Len(ShaderLocations) :
        \E j \in 1..Len(primitive.attributes) : primitive.attributes[j].name = ShaderLocations[s].name}

\* The count of the accessor of the last shader slot the primitive provides:
\* the last attribute accessor that setupPrimitive takes up (0 when it takes none).
LastSlotCount(primitive) ==
    IF ProvidedSlots(primitive) = {} THEN 0
    ELSE LET s == CHOOSE t \in ProvidedSlots(primitive) : \A u \in ProvidedSlots(primitive) : u <= t
             j == CHOOSE i \in 1..Len(primitive.attributes) :
                      primitive.attributes[i].name = ShaderLocations[s].name
         IN  At(Gltf_.accessors, primitive.attributes[j].accessor).count

\* The draw the claim asks for a primitive.
ExpectedDraw(primitive) ==
    IF primitive.indices # Absent
    THEN Cmd("drawIndexed", <<At(Gltf_.accessors, primitive.indices).count, gltf_group.instanceCount>>)
    ELSE Cmd("draw", <<LastSlotCount(primitive), gltf_group.instanceCount>>)

\* The (node, primitive) pairs of a frame: every mesh-bearing node in node
\* order, and for each the primitives of its mesh in mesh order.
FramePrimitives ==
    Concat([n \in 1..Len(Gltf_.nodes) |->
              IF Gltf_.nodes[n].mesh = Absent THEN <<>>
              ELSE [p \in 1..Len(At(Gltf_.meshes, Gltf_.nodes[n].mesh)) |->
                      [node |-> n - 1, key |-> <<Gltf_.nodes[n].mesh, p - 1>>]]])

\* C2: in every frame the draws are, one per mesh-bearing node and primitive
\* of its mesh and in that order, an indexed draw of the index accessor's
\* count when the primitive has indices and otherwise a non-indexed draw of
\* the count of the last attribute accessor setupPrimitive took up, each with
\* the group's instance count.
C2_OneDrawPerPrimitive ==
    cmds # <<>> =>
        /\ Len(Ascending(DrawPos)) = Len(FramePrimitives)
        /\ \A n \in 1..Len(FramePrimitives) :
              cmds[Ascending(DrawPos)[n]] = ExpectedDraw(PrimitiveAt(gltf_group, FramePrimitives[n].key))

\* Witness of C2: a frame of two instances with an indexed and a non-indexed draw.
C2_Witness ==
    /\ cmds # <<>>
    /\ gltf_group.instanceCount = 2
    /\ Pos("draw") # {}
    /\ Pos("drawIndexed") # {}
    /\ \E k \in Pos("drawIndexed") : cmds[k].args = <<6, 2>>
    /\ \E k \in Pos("draw") : cmds[k].args = <<3, 2>>

\* The primitives of the asset, as (mesh, primitive) keys.
AllPrimitiveKeys ==
    {<<m - 1, p - 1>> : m \in 1..Len(Gltf_.meshes), p \in 1..MaxPrims}
        \cap {key \in (0..MaxNodes) \X (0..MaxPrims) :
                 /\ key[1] < Len(Gltf_.meshes)
                 /\ key[2] < Len(At(Gltf_.meshes, key[1]))}

\* A pipeline has been compiled for the primitive.
HasPipeline(key) == \E h \in 1..Len(device.pipelines) : device.pipelines[h].primitive = key

\* The primitive's draw mode is outside points, lines, line strip, triangles
\* and triangle strip.
UnsupportedTopology(key) ==
    PrimitiveAt(gltf_group, key).mode \notin {Absent, GL_POINTS, GL_LINES, GL_LINE_STRIP, GL_TRIANGLES, GL_TRIANGLE_STRIP}

\* C3: a primitive whose draw mode is none of the five supported ones makes
\* initialization abort with an asset-incompatibility error, and no pipeline
\* is compiled for it.
\* The code does not do this: TLC reaches a ready renderer that holds a
\* pipeline for a triangle-fan primitive.
C3_UnsupportedTopologyAborts ==
    \A key \in AllPrimitiveKeys :
        UnsupportedTopology(key) =>
            /\ ~HasPipeline(key)
            /\ phase # "ready"

\* A required shader attribute of the primitive has an accessor whose
\* component type and element type the format table does not cover.
CoveredComponentTypes ==
    {GL_BYTE, GL_UNSIGNED_BYTE, GL_SHORT, GL_UNSIGNED_SHORT, GL_UNSIGNED_INT, GL_FLOAT}

CoveredElementTypes == {"SCALAR", "VEC2", "VEC3", "VEC4"}

UncoveredFormat(key) ==
    \E j \in 1..Len(PrimitiveAt(gltf_group, key).attributes) :
        LET attribute == PrimitiveAt(gltf_group, key).attributes[j]
            accessor == At(Gltf_.accessors, attribute.accessor)
        IN  /\ \E s \in 1..Len(ShaderLocations) : ShaderLocations[s].name = attribute.name
            /\ \/ accessor.componentType \notin CoveredComponentTypes
               \/ accessor.type \notin CoveredElementTypes

\* C4: a required shader attribute whose accessor has a component type and
\* element type outside the supported table makes initialization abort before
\* a pipeline is compiled for the primitive.
\* The code does not do this for the element type: TLC reaches a ready
\* renderer that holds a pipeline for a primitive with a MAT4 attribute.
C4_UncoveredFormatAborts ==
    \A key \in AllPrimitiveKeys :
        UncoveredFormat(key) =>
            /\ ~HasPipeline(key)
            /\ phase # "ready"

\* The payload has fewer bytes than a referenced buffer view addresses.
ShortPayload ==
    /\ gltf_group.bufferData.ok
    /\ \E i \in Indices(Gltf_.bufferViews) :
          /\ ReferencedView(i)
          /\ At(Gltf_.bufferViews, i).byteOffset + At(Gltf_.bufferViews, i).byteLength
                 > gltf_group.bufferData.len

\* C5: when the binary payload fails to resolve, or is shorter than a
\* referenced buffer view's byteOffset + byteLength, initialization aborts
\* with a load error and does not go on to create bind groups or pipelines.
\* The code does not do this for the short payload: TLC reaches a ready
\* renderer with bind groups whose buffer view lies past the payload's end.
C5_BadPayloadAborts ==
    (~gltf_group.bufferData.ok \/ ShortPayload) =>
        /\ phase # "ready"
        /\ device.bindGroups = <<>>
        /\ device.pipelines = <<>>
        /\ (load.done => error = "LoadError")

\* C6: the joint-transform storage buffer is created with room for exactly
\* 16 x J x N floats for an asset with a skin of J joints and a group of N
\* instances, and with room for 4 floats for an asset with no skin.
C6_JointTransformBufferSize ==
    renderer.jointTransformBuffer # NoHandle =>
        LET b == BufferOf(renderer.jointTransformBuffer)
            floats == IF Gltf_.hasSkins
                      THEN 16 * Len(Gltf_.skins[1].joints) * gltf_group.instanceCount
                      ELSE 4
        IN  /\ b.size = floats * BYTES_PER_ELEMENT
            /\ Len(b.data) = floats

\* Witness of C6: a joint-transform buffer for a first skin of two joints,
\* a second skin of one joint, and two instances.
C6_Witness ==
    /\ renderer.jointTransformBuffer # NoHandle
    /\ Len(Gltf_.skins) = 2
    /\ Len(Gltf_.skins[1].joints) = 2
    /\ Len(Gltf_.skins[2].joints) = 1
    /\ gltf_group.instanceCount = 2
    /\ BufferOf(renderer.jointTransformBuffer).size = 256

\* C7: for an asset with no skin the joint metadata buffer is (0, 0, 0, 0)
\* and no initialization step reads skins[0]; for an asset with a skin it is
\* (1, J, 0, 0), J being the joint count of the first skin.
C7_JointInfo ==
    /\ ~Gltf_.hasSkins => skinReads = {}
    /\ renderer.jointInfoBuffer # NoHandle =>
          BufferOf(renderer.jointInfoBuffer).data =
              IF Gltf_.hasSkins THEN <<1, Len(Gltf_.skins[1].joints), 0, 0>>
              ELSE <<0, 0, 0, 0>>

\* Witness of C7: a ready renderer of an asset with no skin.
C7_Witness ==
    /\ phase = "ready"
    /\ ~Gltf_.hasSkins
    /\ Len(Gltf_.nodes) > 0
    /\ renderer.jointInfoBuffer # NoHandle
    /\ BufferOf(renderer.jointInfoBuffer).data = <<0, 0, 0, 0>>
    /\ skinReads = {}

\* The positions of the setBindGroup calls on a slot.
Bind(slot) == {k \in Pos("setBindGroup") : cmds[k].args[1] = slot}

\* The calls that are only legal while the render pass is recording.
PassOps ==
    {"setBindGroup", "setPipeline", "setVertexBuffer", "setIndexBuffer", "draw",
     "drawIndexed", "setViewport", "setScissorRect"}

\* The last position of S before k (0 when there is none).
LastBefore(S, k) ==
    IF {j \in S : j < k} = {} THEN 0
    ELSE CHOOSE j \in S : j < k /\ \A i \in S : i < k => i <= j

\* The calls of the n-th draw of the frame: everything after the previous
\* draw or node binding, up to the draw itself.
Segment(k) == (LastBefore(DrawPos \cup Bind(2), k) + 1)..(k - 1)

\* The n-th draw is made with its node's bind group on slot 2, after exactly
\* one setPipeline of its primitive's pipeline and one setVertexBuffer for
\* each of the primitive's vertex buffers.
DrawPrepared(n) ==
    LET k == Ascending(DrawPos)[n]
        fp == FramePrimitives[n]
        gpuPrimitive == renderer.primitiveGpuData[fp.key]
        node == LastBefore(Bind(2), k)
    IN  /\ node > 0
        /\ \E e \in 1..Len(renderer.nodeGpuData) :
              /\ renderer.nodeGpuData[e].node = fp.node
              /\ renderer.nodeGpuData[e].bindGroup = cmds[node].args[2]
        /\ Cardinality(Segment(k) \cap Pos("setPipeline")) = 1
        /\ \A j \in Segment(k) \cap Pos("setPipeline") :
              /\ cmds[j].args = <<gpuPrimitive.pipeline>>
              /\ device.pipelines[gpuPrimitive.pipeline].primitive = fp.key
        /\ Cardinality(Segment(k) \cap Pos("setVertexBuffer")) = Len(gpuPrimitive.buffers)
        /\ \A i \in 1..Len(gpuPrimitive.buffers) :
              \E j \in Segment(k) \cap Pos("setVertexBuffer") :
                  cmds[j].args = <<i - 1, gpuPrimitive.buffers[i].buffer, gpuPrimitive.buffers[i].offset>>

\* C8: one frame begins exactly one render pass, binds slots 0 and 1 once and
\* before any node is drawn, binds slot 2 once per mesh-bearing node before
\* that node's primitives, sets each primitive's pipeline and all its vertex
\* buffers before its draw, makes every pass call between the begin and the
\* end of the pass, ends the pass, submits exactly once and requests exactly
\* one next frame as its last call.
C8_FrameStructure ==
    cmds # <<>> =>
        /\ \A op \in {"beginRenderPass", "end", "submit", "requestAnimationFrame"} :
              Cardinality(Pos(op)) = 1
        /\ Cardinality(Bind(0)) = 1
        /\ Cardinality(Bind(1)) = 1
        /\ \A b \in Pos("beginRenderPass"), e \in Pos("end") :
              /\ b < e
              /\ \A k \in 1..Len(cmds) : cmds[k].op \in PassOps => (b < k /\ k < e)
              /\ \A s \in Pos("submit") : e < s
        /\ \A k \in Bind(2) \cup Pos("setPipeline") \cup Pos("setVertexBuffer") \cup DrawPos :
              \A b0 \in Bind(0), b1 \in Bind(1) : b0 < k /\ b1 < k
        /\ Cardinality(Bind(2)) = Cardinality({n \in 1..Len(Gltf_.nodes) : Gltf_.nodes[n].mesh # Absent})
        /\ Len(Ascending(DrawPos)) = Len(FramePrimitives)
        /\ \A n \in 1..Len(FramePrimitives) : DrawPrepared(n)
        /\ \A s \in Pos("submit") : s < Len(cmds)
        /\ cmds[Len(cmds)].op = "requestAnimationFrame"
        /\ rafPending >= 1

\* Witness of C8: a frame over two mesh-bearing nodes, one of them with two
\* primitives.
C8_Witness ==
    /\ cmds # <<>>
    /\ Cardinality(Bind(2)) = 2
    /\ Cardinality(DrawPos) >= 3
    /\ Cardinality(Pos("setVertexBuffer")) >= 3
    /\ cmds[Len(cmds)].op = "requestAnimationFrame"

\* C9: the three attachments (colour, second colour, depth) are cleared at
\* the start of every frame's pass when the renderer was initialized as the
\* first renderer, and loaded otherwise; the flag does not change once
\* initialization has begun.
C9_LoadOpFollowsFirstFlag ==
    /\ [](cmds # <<>> =>
            \A k \in Pos("beginRenderPass") :
                cmds[k].args = IF isFirstRenderer THEN <<"clear", "clear", "clear">>
                               ELSE <<"load", "load", "load">>)
    /\ [][phase # "constructed" => isFirstRenderer' = isFirstRenderer]_vars

\* Witness of C9: a frame of a renderer that is not the first.
C9_Witness ==
    /\ cmds # <<>>
    /\ ~isFirstRenderer
    /\ Len(Gltf_.skins) > 0
    /\ \E k \in Pos("beginRenderPass") : cmds[k].args = <<"load", "load", "load">>

\* The transform list read back from a buffer of floats, 16 floats each.
ReadBack(data) ==
    [i \in 1..(Len(data) \div 16) |-> SubSeq(data, 16 * (i - 1) + 1, 16 * i)]

\* C10: once updateInstanceBuffer has run on the group's transform list, the
\* instance buffer holds at float offset 16 x i the 16 floats of transform i,
\* for every index i of the list, so that reading the buffer back gives the
\* list.
C10_InstanceBufferHoldsTransforms ==
    renderer.instanceBuffer # NoHandle =>
        LET data == BufferOf(renderer.instanceBuffer).data
        IN  /\ \A i \in Indices(gltf_group.transforms) : \A k \in 0..15 :
                  At(data, 16 * i + k) = At(At(gltf_group.transforms, i), k)
            /\ ReadBack(data) = gltf_group.transforms

\* Witness of C10: two transforms, replaced after initialization by two
\* different ones, in the buffer.
C10_Witness ==
    /\ phase = "ready"
    /\ gltf_group.transforms = <<CountingMat, IdentityMat>>
    /\ ReadBack(BufferOf(renderer.instanceBuffer).data) = <<CountingMat, IdentityMat>>

\* The component types an index accessor may carry: the six of the table,
\* one outside it, and none.
IndexComponentTypes == CoveredComponentTypes \cup {UnknownComponentType, Absent}

\* The index format the claim asks for a component type.
ExpectedIndexFormat(componentType) ==
    IF componentType = GL_UNSIGNED_SHORT THEN "uint16" ELSE "uint32"

\* C11: gpuIndexFormatForComponentType gives the 16-bit index format for
\* unsigned short and the 32-bit one for every other component type,
\* unsigned int and unknown values included, the same on every invocation:
\* as a function of the component type, and in the index type stored for
\* every indexed primitive.
C11_IndexFormat ==
    /\ \A ct \in IndexComponentTypes :
          /\ gpuIndexFormatForComponentType(ct) = ExpectedIndexFormat(ct)
          /\ gpuIndexFormatForComponentType(ct) = gpuIndexFormatForComponentType(ct)
    /\ \A key \in DOMAIN renderer.primitiveGpuData :
          PrimitiveAt(gltf_group, key).indices # Absent =>
              renderer.primitiveGpuData[key].indexType =
                  ExpectedIndexFormat(
                      At(Gltf_.accessors, PrimitiveAt(gltf_group, key).indices).componentType)

\* Witness of C11: a primitive whose index accessor has a component type
\* outside the table, stored with the 32-bit index format.
C11_Witness ==
    \E key \in DOMAIN renderer.primitiveGpuData :
        /\ PrimitiveAt(gltf_group, key).indices # Absent
        /\ At(Gltf_.accessors, PrimitiveAt(gltf_group, key).indices).componentType
               = UnknownComponentType
        /\ renderer.primitiveGpuData[key].indexType = "uint32"

\* The accessors with a component type and an element type of the table.
SupportedAccessors ==
    [componentType : CoveredComponentTypes, type : CoveredElementTypes, normalized : BOOLEAN]

\* The parts of the format string the claim names.
SignTag(componentType) ==
    IF componentType \in {GL_BYTE, GL_SHORT} THEN "s" ELSE "u"

BitWidth(componentType) ==
    IF componentType \in {GL_BYTE, GL_UNSIGNED_BYTE} THEN "8"
    ELSE IF componentType \in {GL_SHORT, GL_UNSIGNED_SHORT} THEN "16" ELSE "32"

CountSuffix(type) ==
    IF type = "VEC2" THEN "x2" ELSE IF type = "VEC3" THEN "x3"
    ELSE IF type = "VEC4" THEN "x4" ELSE ""

ExpectedFormat(accessor) ==
    (IF accessor.componentType = GL_FLOAT THEN "float"
     ELSE SignTag(accessor.componentType) \o (IF accessor.normalized THEN "norm" ELSE "int"))
    \o BitWidth(accessor.componentType) \o CountSuffix(accessor.type)

\* The accessor of the attribute a layout entry of the primitive was made for.
EntryAccessor(key, entry) ==
    LET s == CHOOSE t \in 1..Len(ShaderLocations) : ShaderLocations[t].location = entry.shaderLocation
        primitive == PrimitiveAt(gltf_group, key)
    IN  At(Gltf_.accessors, primitive.attributes[First(Found(primitive, ShaderLocations[s].name))].accessor)

IsSupported(accessor) ==
    /\ accessor.componentType \in CoveredComponentTypes
    /\ accessor.type \in CoveredElementTypes

\* C12: for every accessor with a supported component type and element type
\* gpuFormatForAccessor gives the sign and normalization tag ("s" or "u" with
\* "norm" or "int", or "float"), the bit width, and "x<count>" only when the
\* count is above 1: "unorm8x3" for normalized unsigned-byte VEC3, "float32"
\* for float SCALAR; as a function of the accessor, and in the format of every
\* vertex-buffer layout entry of every compiled pipeline.
C12_FormatString ==
    /\ \A accessor \in SupportedAccessors :
          FormatString(gpuFormatForAccessor(accessor)) = ExpectedFormat(accessor)
    /\ FormatString(gpuFormatForAccessor(
           [componentType |-> GL_UNSIGNED_BYTE, type |-> "VEC3", normalized |-> TRUE])) = "unorm8x3"
    /\ FormatString(gpuFormatForAccessor(
           [componentType |-> GL_FLOAT, type |-> "SCALAR", normalized |-> FALSE])) = "float32"
    /\ \A h \in 1..Len(device.pipelines) : \A k \in 1..Len(device.pipelines[h].buffers) :
          LET entry == device.pipelines[h].buffers[k]
              accessor == EntryAccessor(device.pipelines[h].primitive, entry)
          IN  IsSupported(accessor) =>
                  FormatString(entry.format) =
                      ExpectedFormat([componentType |-> accessor.componentType,
                                      type |-> accessor.type,
                                      normalized |-> accessor.normalized])

\* Witness of C12: a compiled pipeline with a float VEC3 entry and a
\* normalized unsigned-byte VEC4 entry.
C12_Witness ==
    \E h \in 1..Len(device.pipelines) :
        /\ Len(device.pipelines[h].buffers) = 2
        /\ FormatString(device.pipelines[h].buffers[1].format) = "float32x3"
        /\ FormatString(device.pipelines[h].buffers[2].format) = "unorm8x4"

\* The buffers whose contents the per-frame drivers write.
DriverBuffers == {renderer.cameraBuffer, renderer.instanceBuffer}

\* A step that leaves every GPU object in place: the renderer's fields (and
\* with them gpuBuffers, primitiveGpuData, nodeGpuData, the bind-group layouts
\* and the pipeline layout) keep their values, the device has the same
\* layouts, bind groups, shader modules and pipelines and as many buffers, and
\* nothing of a buffer changes but the contents of the camera and instance
\* buffers.
NothingCreated ==
    /\ renderer' = renderer
    /\ Len(device'.buffers) = Len(device.buffers)
    /\ device'.bindGroupLayouts = device.bindGroupLayouts
    /\ device'.bindGroups = device.bindGroups
    /\ device'.pipelineLayouts = device.pipelineLayouts
    /\ device'.shaderModules = device.shaderModules
    /\ device'.pipelines = device.pipelines
    /\ \A h \in 1..Len(device.buffers) :
          IF h \in DriverBuffers
          THEN [device'.buffers[h] EXCEPT !.data = <<>>] = [device.buffers[h] EXCEPT !.data = <<>>]
          ELSE device'.buffers[h] = device.buffers[h]

\* C13: once initialization has completed, no renderGLTF, updateCameraBuffer,
\* updateInstanceBuffer or updateJointTransformBuffer call creates a GPU
\* buffer, bind group or pipeline, or changes gpuBuffers, primitiveGpuData,
\* nodeGpuData, the bind-group layouts or the pipeline layout; only the
\* contents of the camera and instance buffers change.
C13_SteadyState == [][phase = "ready" => (phase' = "ready" /\ NothingCreated)]_vars

\* Witness of C13: a ready renderer that has drawn a frame and whose camera
\* and instance buffers have been rewritten.
C13_Witness ==
    /\ phase = "ready"
    /\ cmds # <<>>
    /\ gltf_group.instanceCount = 2
    /\ BufferOf(renderer.cameraBuffer).data[36] = 31
    /\ BufferOf(renderer.instanceBuffer).data[1] = CountingMat[1]
    /\ Len(device.pipelines) >= 2

\* Buffer view i is referenced by the index accessor of some primitive.
IndexReferenced(i) ==
    \E m \in 1..Len(Gltf_.meshes) : \E p \in 1..Len(Gltf_.meshes[m]) :
        /\ Gltf_.meshes[m][p].indices # Absent
        /\ At(Gltf_.accessors, Gltf_.meshes[m][p].indices).bufferView = i

\* Buffer view i is referenced by an attribute accessor of some primitive.
VertexReferenced(i) ==
    \E m \in 1..Len(Gltf_.meshes) : \E p \in 1..Len(Gltf_.meshes[m]) :
        \E j \in 1..Len(Gltf_.meshes[m][p].attributes) :
            At(Gltf_.accessors, Gltf_.meshes[m][p].attributes[j].accessor).bufferView = i

\* Buffer view i is referenced by the first skin's inverse-bind-matrix accessor.
SkinReferenced(i) ==
    /\ Gltf_.hasSkins
    /\ At(Gltf_.accessors, Gltf_.skins[1].inverseBindMatrices).bufferView = i

\* The usages the references to buffer view i call for.
RequiredUsage(i) ==
    (IF IndexReferenced(i) THEN {"INDEX"} ELSE {})
        \cup (IF VertexReferenced(i) THEN {"VERTEX"} ELSE {})
        \cup (IF SkinReferenced(i) THEN {"STORAGE", "COPY_DST"} ELSE {})

\* C14: after loadGPUBuffers the GPU buffer of a buffer view carries index
\* usage if an index accessor references the view, vertex usage if an
\* attribute accessor does, and storage and copy-destination usage if the
\* first skin's inverse-bind-matrix accessor does, also when accessors of
\* more than one of these kinds reference the same view.
\* The code does not do this: TLC reaches a loaded renderer in which the
\* buffer of a view that an index accessor and an attribute accessor share
\* has vertex usage only.
C14_UsageCoversReferences ==
    load.done =>
        \A i \in Indices(renderer.gpuBuffers) :
            RequiredUsage(i) \subseteq BufferOf(At(renderer.gpuBuffers, i)).usage

\* The shader slots the primitive provides, in the order of ShaderLocations.
ProvidedSlotSeq(primitive) ==
    SelectSeq([s \in 1..Len(ShaderLocations) |-> s], LAMBDA s : s \in ProvidedSlots(primitive))

\* The accessor of the attribute of the primitive that fills shader slot s.
SlotAccessor(primitive, s) ==
    At(Gltf_.accessors,
       primitive.attributes[First(Found(primitive, ShaderLocations[s].name))].accessor)

\* The layout list and the buffer list stored for the primitive have one
\* entry per provided slot, in slot order, entry i of both made from the
\* accessor of the i-th provided slot.
ListsAligned(key) ==
    LET primitive == PrimitiveAt(gltf_group, key)
        slots == ProvidedSlotSeq(primitive)
        gpuPrimitive == renderer.primitiveGpuData[key]
        layout == device.pipelines[gpuPrimitive.pipeline].buffers
    IN  /\ Len(layout) = Len(gpuPrimitive.buffers)
        /\ Len(layout) = Len(slots)
        /\ \A i \in 1..Len(layout) :
              /\ layout[i].shaderLocation = ShaderLocations[slots[i]].location
              /\ FormatString(layout[i].format)
                     = FormatString(gpuFormatForAccessor(SlotAccessor(primitive, slots[i])))
              /\ gpuPrimitive.buffers[i].buffer
                     = At(renderer.gpuBuffers, SlotAccessor(primitive, slots[i]).bufferView)
              /\ gpuPrimitive.buffers[i].offset = SlotAccessor(primitive, slots[i]).byteOffset
        /\ \A i, j \in 1..Len(layout) :
              i < j => layout[i].shaderLocation < layout[j].shaderLocation

\* The setVertexBuffer calls made for the n-th draw of the frame, in order.
VertexBufferCalls(n) ==
    SelectSeq(SubSeq(cmds, LastBefore(DrawPos \cup Bind(2), Ascending(DrawPos)[n]) + 1,
                     Ascending(DrawPos)[n] - 1),
              LAMBDA c : c.op = "setVertexBuffer")

CameraFloats == 16 + 16 + 3 + 1

\* C16: the camera uniform buffer created at initialization has a size of
\* exactly 36 floats, and every updateCameraBuffer call writes exactly that
\* many floats at offset 0: the projection matrix at floats 0-15, the view
\* matrix at 16-31, the position at 32-34 and the time at 35.
\* The code does not do this: the buffer is created with FRAMEBUFFERSIZE,
\* which is already a number of bytes, times the size of a float, so TLC
\* reaches a camera buffer of 576 bytes, 144 floats.
C16_CameraBufferLayout ==
    renderer.cameraBuffer # NoHandle =>
        /\ BufferOf(renderer.cameraBuffer).size = CameraFloats * BYTES_PER_ELEMENT
        /\ Len(BufferOf(renderer.cameraBuffer).data) = CameraFloats
        /\ \/ BufferOf(renderer.cameraBuffer).data = Zeros(CameraFloats)
           \/ \E a \in CameraArgs :
                 BufferOf(renderer.cameraBuffer).data = a[1] \o a[2] \o a[3] \o <<a[4]>>

====
